---- MODULE Spec2Model ----
(***************************************************************************)
(* Model of the libhal-stm32f1 Conan recipe (conanfile.py): the ownership  *)
(* predicate _is_me, the linker flag derivation                            *)
(* add_linker_scripts_to_link_flags, package_info and package_id.          *)
(*                                                                         *)
(* A Python str is modelled as a sequence of one-character strings, so     *)
(* that len(), startswith(), indexing and "".join() are computed position  *)
(* by position.  One recipe instance is modelled: the host fixes           *)
(* settings.os, options.platform and package_folder before it calls any    *)
(* method, so Init draws them and no action changes them.                  *)
(***************************************************************************)
EXTENDS Integers, Sequences, FiniteSets, TLC

VARIABLES os, platform, package_folder, libs, properties, exelinkflags,
          buildenv, info_options, last, err, ret, info_calls, direct_calls

vars == <<os, platform, package_folder, libs, properties, exelinkflags,
          buildenv, info_options, last, err, ret, info_calls, direct_calls>>

------------------------------------------------------------------------------
(* Bounds of the model *)

\* longest tail appended to "stm32f1" in the generated platform identifiers
MaxTail == 4
\* how many times one recipe method is invoked on the instance
MaxCalls == 2

------------------------------------------------------------------------------
(* String literals of the recipe, as character sequences *)

Stm32f1 == <<"s","t","m","3","2","f","1">>
LinkerScriptsDir == <<"l","i","n","k","e","r","_","s","c","r","i","p","t","s">>
PackageName == <<"l","i","b","h","a","l","-","s","t","m","3","2","f","1">>
LdSuffix == <<".","l","d">>
DashL == <<"-","L">>
DashT == <<"-","T">>
DefaultPlatform == <<"A","N","Y">>

------------------------------------------------------------------------------
(* Inputs the host can supply *)

TailAlphabet == {"0", "x", "8"}

RECURSIVE TailsOfLen(_)
TailsOfLen(n) ==
    IF n = 0 THEN {<<>>}
    ELSE {Append(t, c) : t \in TailsOfLen(n - 1), c \in TailAlphabet}

GeneratedPlatforms ==
    {Stm32f1 \o t : t \in UNION {TailsOfLen(n) : n \in 0..MaxTail}}

SamplePlatforms ==
    { <<>>,
      DefaultPlatform,
      <<"s","t","m","3","2","f","1","0","3","c","8">>,
      <<"s","t","m","3","2","f","1","0","3","c","b">>,
      <<"s","t","m","3","2","f","1","0","1","c","8">>,
      <<"s","t","m","3","2","f","1","0","3","c">>,
      <<"s","t","m","3","2","f","1","0","3">>,
      <<"s","t","m","3","2","f","1","0","3","c","8","t","6">>,
      <<"s","t","m","3","2","f","4","1","1","r","e">>,
      <<"l","p","c","4","0","7","8","f","b","d","8">>,
      <<"l","p","c","4","0","7","4">> }

Platforms == GeneratedPlatforms \cup SamplePlatforms

OsValues == {"baremetal", "Linux"}

PackageFolders == { <<"/","p","k","g">>, <<"/","c","/","p","/">> }

\* options other than platform that the identity record may carry
OtherOptions ==
    { <<>>, [k \in {"shared"} |-> <<"T","r","u","e">>] }

------------------------------------------------------------------------------
(* Python helpers *)

\* "".join(chars)
RECURSIVE Join(_)
Join(s) == IF s = <<>> THEN "" ELSE Head(s) \o Join(Tail(s))

\* str.startswith(prefix)
startswith(s, prefix) ==
    /\ Len(s) >= Len(prefix)
    /\ \A i \in 1..Len(prefix) : s[i] = prefix[i]

\* list[i] = v is in range (0-indexed i)
IndexInRange(l, i) == i < Len(l)

\* list[i] = v (0-indexed i)
setitem(l, i, v) == [l EXCEPT ![i + 1] = v]

\* os.path.join(a, b) on POSIX
os_path_join(a, b) ==
    IF startswith(b, <<"/">>) THEN b
    ELSE IF a = <<>> \/ a[Len(a)] = "/" THEN a \o b
    ELSE a \o <<"/">> \o b

------------------------------------------------------------------------------
(* The recipe *)

\* _is_me with the length test loosened to "at least 11"
is_me_min_len(p) == startswith(p, Stm32f1) /\ Len(p) >= 11

\* _is_me without the length test
is_me_prefix_only(p) == startswith(p, Stm32f1)

\* the _is_me property, evaluated on str(self.options.platform)
_is_me(p) == startswith(p, Stm32f1) /\ Len(p) = 11

\* the wildcarding with both indices one too low
linker_script_name_off_by_one(p) == setitem(setitem(p, 7, "x"), 8, "x")

\* linker_script_name after the two item assignments and the join
linker_script_name(p) == setitem(setitem(p, 8, "x"), 9, "x")

\* the flag list with the script flag first
link_flags_swapped(folder, name) ==
    << DashT \o os_path_join(PackageName, name \o LdSuffix),
       DashL \o os_path_join(folder, LinkerScriptsDir) >>

\* the list assigned to self.cpp_info.exelinkflags
link_flags(folder, name) ==
    << DashL \o os_path_join(folder, LinkerScriptsDir),
       DashT \o os_path_join(PackageName, name \o LdSuffix) >>

\* the derivation appending to the flags already there
add_linker_scripts_appending(p, folder, flags) ==
    IF ~IndexInRange(p, 8) \/ ~IndexInRange(p, 9)
    THEN [err |-> "IndexError", exelinkflags |-> flags]
    ELSE [err |-> "none",
          exelinkflags |-> flags \o link_flags(folder, linker_script_name(p))]

\* the derivation writing index 8 only
add_linker_scripts_one_index(p, folder, flags) ==
    IF ~IndexInRange(p, 8)
    THEN [err |-> "IndexError", exelinkflags |-> flags]
    ELSE [err |-> "none",
          exelinkflags |-> link_flags(folder, setitem(p, 8, "x"))]

\* add_linker_scripts_to_link_flags: the outcome (an IndexError raised by
\* one of the two item assignments, or none) and exelinkflags afterwards
add_linker_scripts_to_link_flags(p, folder, flags) ==
    IF ~IndexInRange(p, 8)
    THEN [err |-> "IndexError", exelinkflags |-> flags]
    ELSE IF ~IndexInRange(setitem(p, 8, "x"), 9)
    THEN [err |-> "IndexError", exelinkflags |-> flags]
    ELSE [err |-> "none",
          exelinkflags |-> link_flags(folder, linker_script_name(p))]

\* buildenv_info.define(name, value)
define(env, name, value) ==
    [k \in DOMAIN env \cup {name} |-> IF k = name THEN value ELSE env[k]]

\* the exports carrying the wildcarded script name
buildenv_exports_script_name(env, p) ==
    define(define(env, "LIBHAL_PLATFORM", linker_script_name(p)),
           "LIBHAL_PLATFORM_LIBRARY", Stm32f1)

\* the two buildenv_info.define calls of package_info
buildenv_exports(env, p) ==
    define(define(env, "LIBHAL_PLATFORM", p),
           "LIBHAL_PLATFORM_LIBRARY", Stm32f1)

\* the guard of package_info with the os test dropped
package_info_guard_no_os(o, p) == _is_me(p)

\* the guard of package_info
package_info_guard(o, p) == o = "baremetal" /\ _is_me(p)

\* options.get_safe(field): the value, or None when the field is absent
get_safe(opts, field) ==
    IF field \in DOMAIN opts
    THEN [none |-> FALSE, value |-> opts[field]]
    ELSE [none |-> TRUE, value |-> <<>>]

\* truth test of the value get_safe returned: None and the empty value
\* test false
truthy(v) == ~v.none /\ v.value # <<>>

\* del options.<field>
delattr(opts, field) == [k \in DOMAIN opts \ {field} |-> opts[k]]

------------------------------------------------------------------------------
(* State machine *)

Init ==
    /\ os \in OsValues
    /\ platform \in Platforms
    /\ package_folder \in PackageFolders
    /\ libs = <<>>
    /\ properties = <<>>
    /\ exelinkflags = <<>>
    /\ buildenv = <<>>
    /\ \E other \in OtherOptions :
          info_options = define(other, "platform", platform)
    /\ last = "init"
    /\ err = "none"
    /\ ret = FALSE
    /\ info_calls = 0
    /\ direct_calls = 0

\* the host reads the _is_me property
is_me ==
    /\ last' = "_is_me"
    /\ ret' = _is_me(platform)
    /\ err' = "none"
    /\ UNCHANGED <<os, platform, package_folder, libs, properties,
                   exelinkflags, buildenv, info_options, info_calls,
                   direct_calls>>

\* the host calls package_info()
package_info ==
    /\ info_calls < MaxCalls
    /\ info_calls' = info_calls + 1
    /\ last' = "package_info"
    /\ libs' = <<PackageName>>
    /\ properties' = define(properties, "cmake_target_name", "libhal::stm32f1")
    /\ IF package_info_guard(os, platform)
       THEN LET r == add_linker_scripts_to_link_flags(platform, package_folder,
                                                      exelinkflags)
            IN /\ exelinkflags' = r.exelinkflags
               /\ err' = r.err
               /\ buildenv' = IF r.err = "none"
                              THEN buildenv_exports(buildenv, platform)
                              ELSE buildenv
       ELSE /\ err' = "none"
            /\ UNCHANGED <<exelinkflags, buildenv>>
    /\ UNCHANGED <<os, platform, package_folder, info_options, ret,
                   direct_calls>>

\* the host calls package_id()
package_id ==
    /\ last' = "package_id"
    /\ err' = "none"
    /\ info_options' = IF truthy(get_safe(info_options, "platform"))
                       THEN delattr(info_options, "platform")
                       ELSE info_options
    /\ UNCHANGED <<os, platform, package_folder, libs, properties,
                   exelinkflags, buildenv, ret, info_calls, direct_calls>>

\* add_linker_scripts_to_link_flags() called without the guard of package_info
direct_add_linker_scripts ==
    /\ direct_calls < MaxCalls
    /\ direct_calls' = direct_calls + 1
    /\ last' = "add_linker_scripts_to_link_flags"
    /\ LET r == add_linker_scripts_to_link_flags(platform, package_folder,
                                                 exelinkflags)
       IN /\ exelinkflags' = r.exelinkflags
          /\ err' = r.err
    /\ UNCHANGED <<os, platform, package_folder, libs, properties, buildenv,
                   info_options, ret, info_calls>>

\* the methods the host calls
Next ==
    \/ is_me
    \/ package_info
    \/ package_id

Spec == Init /\ [][Next]_vars

\* the host's calls, and the derivation called on its own
NextDirect ==
    \/ is_me
    \/ package_info
    \/ package_id
    \/ direct_add_linker_scripts

SpecDirect == Init /\ [][NextDirect]_vars

------------------------------------------------------------------------------
(* Vocabulary of the properties, stated without the recipe's operators *)

F103C8 == <<"s","t","m","3","2","f","1","0","3","c","8">>
Pkg == <<"/","p","k","g">>
EnvKeys == {"LIBHAL_PLATFORM", "LIBHAL_PLATFORM_LIBRARY"}

\* s starts with "stm32f1" and is exactly 11 characters long
Owned(p) == Len(p) = 11 /\ SubSeq(p, 1, 7) = Stm32f1

\* p with 'x' at the 0-indexed positions 8 and 9
Wildcarded(p) == [i \in 1..Len(p) |-> IF i \in {9, 10} THEN "x" ELSE p[i]]

\* <root>/linker_scripts
SearchPath(root) ==
    IF root[Len(root)] = "/" THEN root \o LinkerScriptsDir
    ELSE root \o <<"/">> \o LinkerScriptsDir

\* the flag list of the derivation for an identifier of 10 or more characters
ExpectedFlags(root, p) ==
    << DashL \o SearchPath(root),
       DashT \o PackageName \o <<"/">> \o Wildcarded(p) \o LdSuffix >>

\* the script base name inside a "-Tlibhal-stm32f1/<name>.ld" flag
ScriptBaseOf(flag) ==
    SubSeq(flag, Len(DashT) + Len(PackageName) + 2, Len(flag) - Len(LdSuffix))

\* the derivation has run: on its own, or behind the guard of package_info
Derived ==
    \/ direct_calls > 0
    \/ info_calls > 0 /\ os = "baremetal" /\ Owned(platform)

------------------------------------------------------------------------------
(* Properties *)

\* C1: the value _is_me returns is true exactly when options.platform starts
\* with "stm32f1" and is 11 characters long, for every string, and reading
\* it never fails.
C1_IsMeIffPrefixAndLength ==
    last = "_is_me" => (err = "none" /\ (ret <=> Owned(platform)))

C1_Witness ==
    /\ last = "_is_me"
    /\ ~ret
    /\ Len(platform) > 11
    /\ SubSeq(platform, 1, 7) = Stm32f1

\* C2: under the host's calls alone, linker flags or build-environment
\* exports are present only when settings.os is "baremetal" and the platform
\* is owned, and then both are complete: two flags and both exports.
C2_OutputsOnlyWhenBaremetalAndOwned ==
    (exelinkflags # <<>> \/ DOMAIN buildenv # {}) =>
        /\ os = "baremetal"
        /\ Owned(platform)
        /\ Len(exelinkflags) = 2
        /\ DOMAIN buildenv = EnvKeys

C2_Witness ==
    /\ last = "package_info"
    /\ os = "baremetal"
    /\ Len(exelinkflags) = 2
    /\ DOMAIN buildenv = EnvKeys

\* C3 as stated: for "stm32f103c8" under "/pkg" the flags are
\* "-L/pkg/linker_scripts" and "-T libhal-stm32f1/stm32xxc8.ld".
C3_AsStated ==
    (Derived /\ platform = F103C8 /\ package_folder = Pkg) =>
        /\ Len(exelinkflags) = 2
        /\ Join(exelinkflags[1]) = "-L/pkg/linker_scripts"
        /\ Join(exelinkflags[2]) = "-T libhal-stm32f1/stm32xxc8.ld"

\* C3 amended: for "stm32f103c8" under "/pkg" the flags are
\* "-L/pkg/linker_scripts" and "-Tlibhal-stm32f1/stm32f10xx8.ld": the script
\* base name is "stm32f10xx8".
C3_FlagsForF103C8 ==
    (Derived /\ platform = F103C8 /\ package_folder = Pkg) =>
        /\ Len(exelinkflags) = 2
        /\ Join(exelinkflags[1]) = "-L/pkg/linker_scripts"
        /\ Join(exelinkflags[2]) = "-Tlibhal-stm32f1/stm32f10xx8.ld"
        /\ Join(ScriptBaseOf(exelinkflags[2])) = "stm32f10xx8"

C3_Witness ==
    /\ last = "package_info"
    /\ os = "baremetal"
    /\ platform = F103C8
    /\ package_folder = Pkg
    /\ Len(exelinkflags) = 2

\* C4 as stated: for an owned platform the flags are the search path
\* <package_root>/linker_scripts and then the script
\* <package_root>/libhal-stm32f1/<script_base_name>.ld.
C4_AsStated ==
    (Derived /\ Owned(platform)) =>
        /\ Len(exelinkflags) = 2
        /\ exelinkflags[1] = DashL \o SearchPath(package_folder)
        /\ exelinkflags[2] =
              DashT \o os_path_join(package_folder, PackageName)
                    \o <<"/">> \o Wildcarded(platform) \o LdSuffix

\* C4 amended: for an owned platform the flags are exactly two, first the
\* search path "-L" <package_root>/linker_scripts, second the script
\* "-T" libhal-stm32f1/<script_base_name>.ld, relative and without
\* package_root.
C4_TwoFlagsInOrder ==
    (Derived /\ Owned(platform)) =>
        exelinkflags = ExpectedFlags(package_folder, platform)

C4_Witness ==
    /\ Derived
    /\ Owned(platform)
    /\ platform # F103C8
    /\ package_folder # Pkg
    /\ Len(exelinkflags) = 2
    /\ SubSeq(exelinkflags[1], 1, 2) = DashL

C6_PlatformRemoved ==
    last = "package_id" =>
        /\ "platform" \notin DOMAIN info_options
        /\ info_options \in OtherOptions

\* C7: after package_info on "baremetal" for an owned platform p the exports
\* are exactly LIBHAL_PLATFORM = p, verbatim, and
\* LIBHAL_PLATFORM_LIBRARY = "stm32f1".
C7_ExportsExact ==
    (info_calls > 0 /\ os = "baremetal" /\ Owned(platform)) =>
        /\ DOMAIN buildenv = EnvKeys
        /\ buildenv["LIBHAL_PLATFORM"] = platform
        /\ Join(buildenv["LIBHAL_PLATFORM_LIBRARY"]) = "stm32f1"
        /\ platform = F103C8 =>
              Join(buildenv["LIBHAL_PLATFORM"]) = "stm32f103c8"

C7_Witness ==
    /\ info_calls > 0
    /\ os = "baremetal"
    /\ platform = F103C8
    /\ DOMAIN buildenv = EnvKeys

\* C8: calling package_info again, or the derivation again, on the same
\* inputs leaves the flags, the exports, libs and the properties as the
\* first call left them.
C8_Idempotent ==
    [][(/\ last \in {"package_info", "add_linker_scripts_to_link_flags"}
        /\ last' = last)
        => /\ exelinkflags' = exelinkflags
           /\ buildenv' = buildenv
           /\ libs' = libs
           /\ properties' = properties
           /\ err' = err]_vars

C8_Witness ==
    /\ info_calls >= 2
    /\ last = "package_info"
    /\ Len(exelinkflags) = 2
    /\ DOMAIN buildenv = EnvKeys

\* C9: for an owned platform p the script base name is 11 characters long,
\* has 'x' at the 0-indexed positions 8 and 9 and p's character everywhere
\* else; another owned identifier gets the same script name exactly when it
\* agrees with p outside these two positions; the platform exported
\* afterwards is still p itself.
C9_ScriptName ==
    (Derived /\ Owned(platform)) =>
        LET n == ScriptBaseOf(exelinkflags[2])
        IN /\ Len(n) = 11
           /\ n[9] = "x" /\ n[10] = "x"
           /\ \A i \in (1..11) \ {9, 10} : n[i] = platform[i]
           /\ SubSeq(n, 1, 7) = Stm32f1
           /\ buildenv # <<>> => buildenv["LIBHAL_PLATFORM"] = platform
           /\ \A q \in {r \in Platforms : Owned(r)} :
                 (linker_script_name(q) = n) <=>
                     (\A i \in (1..11) \ {9, 10} : q[i] = platform[i])

C9_Witness ==
    /\ Derived
    /\ Owned(platform)
    /\ platform[9] # "x"
    /\ platform[10] # "x"
    /\ Len(exelinkflags) = 2
    /\ ScriptBaseOf(exelinkflags[2]) # platform

\* C10: under the host's calls no method ends in an IndexError, whatever
\* settings.os and options.platform are, and flags are only ever written
\* for a platform on which the indices 8 and 9 exist.
C10_NoIndexError ==
    /\ err = "none"
    /\ exelinkflags # <<>> => Len(platform) >= 10

C10_Witness ==
    /\ last = "package_info"
    /\ os = "baremetal"
    /\ Len(platform) < 10
    /\ Len(platform) >= 7
    /\ SubSeq(platform, 1, 7) = Stm32f1
    /\ err = "none"

====
